---------------------------- MODULE Spec2Model ----------------------------
(***************************************************************************)
(* Model of the alert pipeline of winston-logger:                          *)
(*   - truncateString           (utils/truncation.ts)                      *)
(*   - serializeError / serializeCause (utils/error-serialization.ts)      *)
(*   - DiscordRateLimiter       (transports/discord-rate-limiter.ts)       *)
(*   - DiscordWebhookTransport  (transports/discord-webhook-transport.ts)  *)
(*   - ScopedLogger.log         (logger/scoped-logger.ts)                  *)
(*                                                                         *)
(* The specifications share the variables below:                           *)
(*   SpecTrunc  applies truncateString repeatedly to bounded strings,      *)
(*   SpecSer    applies serializeError to bounded cause chains,            *)
(*   SpecRL     drives the rate limiter's public methods under a clock,    *)
(*   Spec       runs log calls through the transport: the dispatch loop,   *)
(*              its timers, the endpoints' answers and the rate limiter,   *)
(*   SpecLive   follows one log call under fairness, to its end,           *)
(*   SpecConc   interleaves two dispatches on the shared rate limiter,      *)
(*   SpecEntry  builds one log entry and passes it through a transport's    *)
(*              format,                                                     *)
(*   SpecRetryAfter  applies getRetryAfter to bounded 429 responses.         *)
(* A specification leaves the variables of the others at their idle value. *)
(***************************************************************************)
EXTENDS Integers, Sequences, FiniteSets, TLC

VARIABLES
    phase,      \* which specification is running: "trunc", "ser", "rl", "tx", "entry", "ra"
    \* ---- truncation
    t_str,      \* the input string (a sequence of characters)
    t_limit,    \* the limit passed to truncateString
    t_outs,     \* the successive results: t_outs[1] = truncateString(t_str, t_limit), ...
    \* ---- serialization
    s_chain,    \* the input: s_chain[1] is the value passed, s_chain[i+1] the cause of s_chain[i]
    s_depth,    \* limits.causeMaxDepth
    s_out,      \* the returned ErrorObject as the sequence root, root.cause, root.cause.cause, ...
    s_done,     \* the call of serializeError is over
    s_threw,    \* it ended with an exception instead of returning
    s_visited,  \* the positions of s_chain that the call has walked
    \* ---- rate limiter and clock
    now,        \* Date.now(), in milliseconds
    state,      \* DiscordRateLimiter.state: endpoint -> RateLimitState, or NoState
    rl_last,    \* the last rate-limiter method called from outside, with its result
    \* ---- transport
    urls,       \* DiscordWebhookTransport.webhookUrls
    maxRetries, \* DiscordWebhookTransport.maxRetries
    disp,       \* one record per log call: where its dispatch stands and what it did
    \* ---- log entry
    e_call,     \* one call of a scoped logger: its level, its entries, the transport's component setting
    e_logEntry, \* the LogEntry that ScopedLogger.log builds and hands to Winston
    e_info,     \* the entry the transport processes, after its format has run
    e_pc,       \* "called", "logged" (entry built), then "dropped" (below the
                \* transport's level) or "transformed" (format applied), then for a
                \* Discord transport "dispatching" or "skipped"
    \* ---- retry delay of a 429
    g_resp,     \* the 429 response passed to getRetryAfter
    g_delay,    \* the value getRetryAfter returned, in seconds
    g_done      \* getRetryAfter has returned

truncVars == <<t_str, t_limit, t_outs>>
serVars == <<s_chain, s_depth, s_out, s_done, s_threw, s_visited>>
rlVars == <<now, state>>
txVars == <<urls, maxRetries, disp>>
entryVars == <<e_call, e_logEntry, e_info, e_pc>>
retryAfterVars == <<g_resp, g_delay, g_done>>
vars == <<phase, t_str, t_limit, t_outs, s_chain, s_depth, s_out, s_done,
          s_threw, s_visited,
          now, state, rl_last, urls, maxRetries, disp,
          e_call, e_logEntry, e_info, e_pc, g_resp, g_delay, g_done>>

----------------------------------------------------------------------------
(* Small helpers *)

Max(a, b) == IF a >= b THEN a ELSE b
Min(a, b) == IF a <= b THEN a ELSE b

\* All sequences over S of length lo..hi
SeqsOf(S, lo, hi) == UNION {[1..n -> S] : n \in lo..hi}

----------------------------------------------------------------------------
(* Bounds of the model *)

MaxStrLen == 5      \* longest input string
MaxLimit == 4       \* largest truncation limit
MaxChain == 5       \* longest input cause chain, the root included
MaxCauseDepth == 3  \* largest causeMaxDepth
MaxTicks == 4       \* the clock stops after this many seconds
MaxRetries == 2     \* largest configured maxRetries

----------------------------------------------------------------------------
(* utils/truncation.ts *)

Chars == {"a", "."}

\* the marker appended by truncateString
Ellipsis == <<".", ".", ".">>

\* String.prototype.substring(0, end) with slice semantics: a negative end counts
\* from the end of the string.
slice0(str, end) ==
    IF end < 0 THEN SubSeq(str, 1, Max(0, Len(str) + end))
    ELSE SubSeq(str, 1, Min(end, Len(str)))

\* String.prototype.substring(0, end): a negative end is treated as 0, an end
\* beyond the string as its length.
substring0(str, end) == SubSeq(str, 1, Min(Max(end, 0), Len(str)))

\* truncateString(str, limit)
truncateString(str, limit) ==
    IF Len(str) = 0 \/ Len(str) <= limit
    THEN str
    ELSE substring0(str, limit - 3) \o Ellipsis

\* serializeError / serializeCause: errorObj.stack = truncateString(serialized.stack,
\* limits.stackLimit)
stackField(stack, stackLimit) == truncateString(stack, stackLimit)

\* stringifyAndTruncate(value, limit), str the string form of value (the value
\* itself, its JSON encoding or String(value))
stringifyAndTruncate(str, limit) == truncateString(str, limit)

\* formatMessage: return truncateString(fullMessage, this.maxMessageLength)
formatMessage(fullMessage, maxMessageLength) == truncateString(fullMessage, maxMessageLength)

EndsWith(str, suffix) ==
    /\ Len(str) >= Len(suffix)
    /\ SubSeq(str, Len(str) - Len(suffix) + 1, Len(str)) = suffix

----------------------------------------------------------------------------
(* utils/validation.ts, utils/error-serialization.ts *)

\* An input value is a record; like = TRUE for an object with a string message
\* (isErrorLike), FALSE for any other truthy value (a string, a number, an object
\* without a message). stringable = FALSE for a value String() cannot convert:
\* an object without prototype, or whose toString throws. A falsy or missing
\* cause ends the chain.
InputNodes == {n \in [like : BOOLEAN, stringable : BOOLEAN] : n.like => n.stringable}

isErrorLike(value) == value.like

Sentinel == [name |-> "DepthLimitError", message |-> "[Max Cause Depth Reached]"]
UnknownCause == [name |-> "UnknownCause", message |-> "String(cause)"]
UnknownError == [name |-> "UnknownError", message |-> "String(error)"]
CauseNode == [name |-> "Error", message |-> "message"]

\* the TypeError of String(value), in place of the node that was being built
Thrown == [name |-> "TypeError", message |-> "Cannot convert object to primitive value"]

\* { message: String(value), name }: the node, or the exception of String(value)
stringNode(value, node) == IF value.stringable THEN node ELSE Thrown

\* baseSerializeError(chain[i]): serialize-error copies the value with all it
\* refers to, the whole cause chain below it included, to any depth
baseSerializeError_visits(chain, i) == i..Len(chain)

\* the depth test of serializeCause, off by one
depthExceeded_off(currentDepth, maxDepth) == currentDepth > maxDepth + 1

\* serializeCause: if (currentDepth > maxDepth)
depthExceeded(currentDepth, maxDepth) == currentDepth > maxDepth

\* serializeCause(cause, maxDepth, currentDepth, limits), cause = chain[i];
\* the result is the serialized cause followed by its own cause chain.
RECURSIVE serializeCause(_, _, _, _)
serializeCause(chain, i, maxDepth, currentDepth) ==
    IF depthExceeded(currentDepth, maxDepth) THEN <<Sentinel>>
    ELSE IF ~isErrorLike(chain[i]) THEN <<stringNode(chain[i], UnknownCause)>>
    ELSE IF i < Len(chain)
         THEN <<CauseNode>> \o serializeCause(chain, i + 1, maxDepth, currentDepth + 1)
         ELSE <<CauseNode>>

\* serializeError(error, limits), error = chain[1]
serializeError(chain, maxDepth) ==
    IF ~isErrorLike(chain[1]) THEN <<stringNode(chain[1], UnknownError)>>
    ELSE IF Len(chain) > 1
         THEN <<CauseNode>> \o serializeCause(chain, 2, maxDepth, 1)
         ELSE <<CauseNode>>

\* an exception raised while a node was built leaves serializeError
Throws(out) == \E k \in 1..Len(out) : out[k] = Thrown

\* the positions of the chain that serializeCause(chain[i], ...) walks
RECURSIVE serializeCause_visits(_, _, _, _)
serializeCause_visits(chain, i, maxDepth, currentDepth) ==
    IF depthExceeded(currentDepth, maxDepth) THEN {}
    ELSE IF ~isErrorLike(chain[i]) THEN {i}
    ELSE baseSerializeError_visits(chain, i)
         \cup (IF i < Len(chain)
               THEN serializeCause_visits(chain, i + 1, maxDepth, currentDepth + 1)
               ELSE {})

\* the positions of the chain that serializeError(chain[1], ...) walks
serializeError_visits(chain, maxDepth) ==
    IF ~isErrorLike(chain[1]) THEN {1}
    ELSE baseSerializeError_visits(chain, 1)
         \cup (IF Len(chain) > 1 THEN serializeCause_visits(chain, 2, maxDepth, 1) ELSE {})

----------------------------------------------------------------------------
(* transports/discord-rate-limiter.ts *)

Endpoints == {"A", "B"}

MsPerSec == 1000

NoState == [none |-> TRUE]
Absent == "absent"

defaultLimit == 30

\* response headers of a success: x-ratelimit-remaining and x-ratelimit-reset-after,
\* each a string or absent
RemainingHeaders == {Absent, "0", "5", "-1"}
ResetAfterHeaders == {Absent, "1"}
SuccessHeaders == [remaining : RemainingHeaders, resetAfter : ResetAfterHeaders]

\* isNaN(parseFloat(s)): the string does not start with a number
isNaN(s) == s \in {"", "abc"}

\* parseInt(s, 10) and parseFloat(s) on the header strings of the model
parseNumber(s) ==
    CASE s = "-1" -> -1
      [] s = "0" -> 0
      [] s = "1" -> 1
      [] s = "2" -> 2
      [] s = "5" -> 5

\* the check refilling the window of the endpoint whenever it is consulted
isRateLimited_state_refill(st, u, t) ==
    IF st[u] = NoState THEN st ELSE [st EXCEPT ![u].remaining = defaultLimit]

\* isRateLimited: the lazy expiry it performs on the stored state
isRateLimited_state(st, u, t) ==
    IF st[u] = NoState THEN st
    ELSE IF st[u].isLimited /\ t >= st[u].resetAt
         THEN [st EXCEPT ![u].isLimited = FALSE, ![u].remaining = defaultLimit]
         ELSE st

\* isRateLimited: its return value
isRateLimited(st, u, t) ==
    IF st[u] = NoState THEN FALSE
    ELSE LET s2 == isRateLimited_state(st, u, t)[u]
         IN  s2.isLimited \/ s2.remaining <= 0

\* getWaitTime without the branch for an exhausted window
getWaitTime_limitedOnly(st, u, t) ==
    IF st[u] = NoState THEN 0
    ELSE IF st[u].isLimited THEN Max(0, st[u].resetAt - t)
    ELSE 0

\* getWaitTime returning the distance to resetAt, past or future
getWaitTime_abs(st, u, t) ==
    IF st[u] = NoState THEN 0
    ELSE IF st[u].isLimited \/ st[u].remaining <= 0
         THEN Max(st[u].resetAt - t, t - st[u].resetAt)
         ELSE 0

\* getWaitTime
getWaitTime(st, u, t) ==
    IF st[u] = NoState THEN 0
    ELSE IF st[u].isLimited THEN Max(0, st[u].resetAt - t)
    ELSE IF st[u].remaining <= 0 THEN Max(0, st[u].resetAt - t)
    ELSE 0

\* a success that leaves a limit in force instead of overwriting it
recordSuccess_merge(st, u, headers, t) ==
    IF st[u] # NoState /\ st[u].isLimited
    THEN st
    ELSE [st EXCEPT ![u] = [remaining |-> defaultLimit - 1,
                            resetAt |-> t + 2 * MsPerSec,
                            isLimited |-> FALSE,
                            retryAfter |-> 0]]

\* a success recorded without reading the headers
recordSuccess_defaults(st, u, headers, t) ==
    [st EXCEPT ![u] = [remaining |-> defaultLimit - 1,
                       resetAt |-> t + 2 * MsPerSec,
                       isLimited |-> FALSE,
                       retryAfter |-> 0]]

\* a success recorded without clearing the limited flag
recordSuccess_limited(st, u, headers, t) ==
    [st EXCEPT ![u] = [remaining |-> defaultLimit - 1,
                       resetAt |-> t + 2 * MsPerSec,
                       isLimited |-> TRUE,
                       retryAfter |-> 0]]

\* recordSuccess(webhookUrl, headers)
recordSuccess(st, u, headers, t) ==
    LET remaining == IF headers.remaining # Absent
                     THEN parseNumber(headers.remaining)
                     ELSE defaultLimit - 1
        resetAfter == IF headers.resetAfter # Absent
                      THEN parseNumber(headers.resetAfter)
                      ELSE 2
    IN  [st EXCEPT ![u] = [remaining |-> remaining,
                           resetAt |-> t + resetAfter * MsPerSec,
                           isLimited |-> FALSE,
                           retryAfter |-> 0]]

\* recordRateLimit(webhookUrl, retryAfter)
recordRateLimit(st, u, retryAfter, t) ==
    [st EXCEPT ![u] = [remaining |-> 0,
                       resetAt |-> t + retryAfter * MsPerSec,
                       isLimited |-> TRUE,
                       retryAfter |-> retryAfter]]

\* reset dropping the state of every endpoint
reset_all(st, u) == [v \in Endpoints |-> NoState]

\* reset(webhookUrl)
reset(st, u) == [st EXCEPT ![u] = NoState]

\* resetAll()
resetAll(st) == [u \in Endpoints |-> NoState]

----------------------------------------------------------------------------
(* transports/discord-webhook-transport.ts, logger/scoped-logger.ts *)

Dispatches == {1, 2}

\* constructor: this.retryDelay = opts.retryDelay ?? 1000
retryDelay == 1000

Pending == -1       \* a request that has no answer yet
NetError == 0       \* a failure without a response (network error, timeout)

\* the body of a 429 (error.response.data): whether it is an object, the type
\* of its retry_after field ("none": no such field) and the field's value
NoBody == [isObject |-> FALSE, kind |-> "none", retry_after |-> 0]
BodyRetryAfter(n) == [isObject |-> TRUE, kind |-> "number", retry_after |-> n]

\* What an endpoint can answer to one POST.
\*   200: a success with its rate-limit headers
\*   429: with a retry-after header (a string or absent) and a body
\*   400: a client error; 500: a server error; NetError: no response at all
Responses ==
    {[status |-> 200, headers |-> h] :
        h \in {[remaining |-> Absent, resetAfter |-> Absent],
               [remaining |-> "0", resetAfter |-> "1"]}}
    \cup {[status |-> 429, retryAfterHeader |-> "1", body |-> NoBody],
          [status |-> 429, retryAfterHeader |-> "0", body |-> NoBody],
          [status |-> 429, retryAfterHeader |-> Absent, body |-> NoBody]}
    \cup {[status |-> 400], [status |-> 500], [status |-> NetError]}

\* the retry delay of the response ignored
getRetryAfter_zero(resp) == 0

\* getRetryAfter(error): the header when it parses, else the body's retry_after
\* when it is a truthy number, else 2
getRetryAfter(resp) ==
    IF resp.retryAfterHeader \notin {Absent, ""} /\ ~isNaN(resp.retryAfterHeader)
    THEN parseNumber(resp.retryAfterHeader)
    ELSE IF /\ resp.body.isObject
            /\ resp.body.kind # "none" /\ resp.body.retry_after # 0
            /\ resp.body.kind = "number"
         THEN resp.body.retry_after
         ELSE 2

\* no sleep after a 429
retrySleepMs_none(retryAfter) == 0

\* sendToWebhook: await this.sleep(retryAfter * 1000)
retrySleepMs(retryAfter) == retryAfter * MsPerSec

RECURSIVE Pow2(_)
Pow2(n) == IF n <= 0 THEN 1 ELSE 2 * Pow2(n - 1)

\* the same delay before every retry
backoffDelay_flat(attempt) == retryDelay

\* sendToWebhook: backoffDelay = this.retryDelay * Math.pow(2, attempt)
backoffDelay(attempt) == retryDelay * Pow2(attempt)

\* ScopedLogger.log: sendDiscordWebhook: entries?.sendDiscordWebhook ?? false
normalizeFlag(f) == IF f = Absent THEN "false" ELSE f

\* log() with the flag test left out
isFlagged_always(info) == TRUE

\* DiscordWebhookTransport.log: if (!info.sendDiscordWebhook) is not taken
isFlagged(info) == info.sendDiscordWebhook = "true"

\* The record of one log call.
\*   pc        "idle"      log() not called yet
\*             "skipped"   log() returned without dispatching
\*             "micro"     sendToDiscord is suspended on a settled promise
\*             "rlwait"    sleeping for the rate limiter's wait time
\*             "inflight"  a POST is awaiting its answer
\*             "retrywait" sleeping the retry delay of a 429
\*             "backoff"   sleeping the exponential backoff
\*             "succeeded" sendToDiscord returned
\*             "exhausted" sendToDiscord threw and the error event was emitted
\*   idx, attempt   position in webhookUrls and the attempt counter of sendToWebhook
\*   wake           when the pending timer is due
\*   hist           the POSTs issued, in order, each with the status answered
\*   callbacks      how often log()'s callback was invoked
\*   errors         how often the 'error' event was emitted
\*   raised         an exception reached the caller of log()
\*   issuedAt       when the last POST was issued
\*   last429        the last 429 answer and when it arrived
\*   formats        how often formatMessage was called for this log call
\*   message        the string formatMessage returned
\*   payloads       the `content` of each POST issued, in the order of hist
IdleDispatch ==
    [pc |-> "idle", flagIn |-> Absent, idx |-> 0, attempt |-> 0, wake |-> 0,
     hist |-> <<>>, callbacks |-> 0, errors |-> 0, raised |-> FALSE,
     issuedAt |-> 0, last429 |-> [at |-> 0, retryAfter |-> 0, header |-> Absent],
     formats |-> 0, message |-> <<>>, payloads |-> <<>>]

\* constructor: this.maxMessageLength = opts.maxMessageLength ?? 2000
defaultMaxMessageLength == 2000

\* formatMessage: parts.join of the header and the message of the entry
fullMessage(info) == info.header \o info.message

\* sendToDiscord: const message = this.formatMessage(info)
buildMessage(dr, info) ==
    [dr EXCEPT !.formats = @ + 1,
               !.message = formatMessage(fullMessage(info), defaultMaxMessageLength)]

\* the message formatted again for every POST
issueRequest_reformat(dr, i, a, t) ==
    [dr EXCEPT !.pc = "inflight", !.idx = i, !.attempt = a,
               !.hist = Append(@, [ep |-> urls[i], st |-> Pending]),
               !.issuedAt = t,
               !.formats = @ + 1,
               !.payloads = Append(@, dr.message)]

\* axios.post(webhookUrl, { content: message }, ...) is called
issueRequest(dr, i, a, t) ==
    [dr EXCEPT !.pc = "inflight", !.idx = i, !.attempt = a,
               !.hist = Append(@, [ep |-> urls[i], st |-> Pending]),
               !.issuedAt = t,
               !.payloads = Append(@, dr.message)]

\* the loop test stopping one attempt early
attemptAllowed_short(a) == a + 1 < maxRetries

\* the loop test allowing one attempt more
attemptAllowed_more(a) == a < maxRetries + 1

\* the loop test skipped before the first attempt
attemptAllowed_first(a) == a = 0 \/ a < maxRetries

\* sendToWebhook: for (let attempt = 0; attempt < this.maxRetries; attempt++)
attemptAllowed(a) == a < maxRetries

\* client errors retried like server errors
isClientError_never(status) == FALSE

\* sendToWebhook: a response with status >= 400 and < 500 (429 is handled before)
isClientError(status) == status >= 400 /\ status < 500

\* sendToWebhook from the head of its loop, for webhookUrls[i] and attempt a, up
\* to the first await that suspends it or its return of false.
loopHead(dr, st, i, a, t) ==
    IF ~attemptAllowed(a)
    THEN [dr |-> [dr EXCEPT !.idx = i, !.attempt = a], st |-> st, ret |-> "false"]
    ELSE LET u == urls[i]
             st2 == isRateLimited_state(st, u, t)
             waitTime == getWaitTime(st2, u, t)
         IN  IF isRateLimited(st, u, t) /\ waitTime > 0
             THEN [dr |-> [dr EXCEPT !.pc = "rlwait", !.idx = i, !.attempt = a,
                                     !.wake = t + waitTime],
                   st |-> st2, ret |-> "suspended"]
             ELSE [dr |-> issueRequest(dr, i, a, t), st |-> st2, ret |-> "suspended"]

\* the rejection of sendToDiscord lost: the dispatch never settles
allFailed_lost(dr) == dr

\* the rejection of sendToDiscord reaching the caller instead of the event
allFailed_throw(dr) == [dr EXCEPT !.pc = "exhausted", !.raised = TRUE]

\* sendToDiscord: throw new Error('All Discord webhook URLs failed'), caught by
\* log()'s .catch, which emits 'error'
allFailed(dr) == [dr EXCEPT !.pc = "exhausted", !.errors = @ + 1]

\* sendToDiscord after sendToWebhook(webhookUrls[i]) returned false (i = 0: before
\* the first endpoint): the next endpoints, up to the first await that suspends
\* or the throw that ends the loop.
\* the loop over webhookUrls ending after the endpoint that returned false
hasNext_never(i) == FALSE

\* sendToDiscord: for (const webhookUrl of this.webhookUrls) has an element
\* after position i
hasNext(i) == i + 1 <= Len(urls)

RECURSIVE afterFalse(_, _, _, _)
afterFalse(dr, st, i, t) ==
    IF hasNext(i)
    THEN LET r == loopHead(dr, st, i + 1, 0, t)
         IN  IF r.ret = "false" THEN afterFalse(r.dr, r.st, i + 1, t) ELSE r
    ELSE [dr |-> allFailed(dr), st |-> st, ret |-> "thrown"]

\* log() holding its callback back until the dispatch has settled
callbacksAtReturn_deferred(flagged) == IF flagged THEN 0 ELSE 1

\* DiscordWebhookTransport.log: callback() is called on both paths before log()
\* returns
callbacksAtReturn(flagged) == 1

\* ScopedLogger.log -> DiscordWebhookTransport.log(info, callback) at time t, f the
\* caller's entries.sendDiscordWebhook: the synchronous part of sendToDiscord
\* (up to its first await) runs inside log(), then the callback is invoked.
logCall(dr, st, f, t) ==
    LET info == [sendDiscordWebhook |-> normalizeFlag(f),
                 header |-> <<"[", "E", "]">>, message |-> <<"a", "b">>]
        dr0 == [dr EXCEPT !.flagIn = f,
                          !.callbacks = @ + callbacksAtReturn(isFlagged(info))]
        dr1 == buildMessage(dr0, info)
    IN  IF ~isFlagged(info)
        THEN [dr |-> [dr0 EXCEPT !.pc = "skipped"], st |-> st]
        ELSE IF Len(urls) = 0
        THEN [dr |-> [dr1 EXCEPT !.pc = "micro", !.idx = 0], st |-> st]
        ELSE LET r == loopHead(dr1, st, 1, 0, t)
             IN  IF r.ret = "false"
                 THEN [dr |-> [r.dr EXCEPT !.pc = "micro"], st |-> r.st]
                 ELSE [dr |-> r.dr, st |-> r.st]

\* sendToWebhook when the answer to its POST arrives at time t
onResponse(dr, st, resp, t) ==
    LET u == urls[dr.idx]
        dr1 == [dr EXCEPT !.hist[Len(dr.hist)].st = resp.status]
    IN  IF resp.status = 200
        THEN [dr |-> [dr1 EXCEPT !.pc = "succeeded"],
              st |-> recordSuccess(st, u, resp.headers, t)]
        ELSE IF resp.status = 429
        THEN LET retryAfter == getRetryAfter(resp)
             IN  [dr |-> [dr1 EXCEPT !.pc = "retrywait",
                                     !.wake = t + retrySleepMs(retryAfter),
                                     !.last429 = [at |-> t, retryAfter |-> retryAfter,
                                                  header |-> resp.retryAfterHeader]],
                  st |-> recordRateLimit(st, u, retryAfter, t)]
        ELSE IF isClientError(resp.status)
        THEN LET r == afterFalse(dr1, st, dr.idx, t)
             IN  [dr |-> r.dr, st |-> r.st]
        ELSE [dr |-> [dr1 EXCEPT !.pc = "backoff", !.wake = t + backoffDelay(dr.attempt)],
              st |-> st]

\* sendToWebhook when the sleep after a failed attempt ends: attempt++ and the
\* loop head
onRetryTimer(dr, st, t) ==
    LET r == loopHead(dr, st, dr.idx, dr.attempt + 1, t)
    IN  IF r.ret = "false"
        THEN LET r2 == afterFalse(r.dr, r.st, dr.idx, t) IN [dr |-> r2.dr, st |-> r2.st]
        ELSE [dr |-> r.dr, st |-> r.st]

----------------------------------------------------------------------------
(* Log entries: ScopedLogger.log, normalizeErrorID, filterLogEntry and the   *)
(* format that createFilterFormat gives a transport                          *)

\* A JavaScript value, as far as the code below looks at it: its type; for a
\* string its first four characters and its length; for a boolean its value.
Undefined == [type |-> "undefined", val |-> "", len |-> 0]
Null == [type |-> "null", val |-> "", len |-> 0]
Str(prefix, length) == [type |-> "string", val |-> prefix, len |-> length]
Bool(b) == [type |-> "boolean", val |-> IF b THEN "true" ELSE "false", len |-> 0]
Obj == [type |-> "object", val |-> "", len |-> 0]

\* !v
Falsy(v) ==
    \/ v.type \in {"undefined", "null"}
    \/ v.type = "string" /\ v.len = 0
    \/ v.type = "boolean" /\ v.val = "false"

\* typeof id === 'string' && id.startsWith('eid-') && id.length > 4
isValidErrorID(id) == id.type = "string" /\ id.val = "eid-" /\ id.len > 4

\* `eid-` followed by the 16 hexadecimal digits of 8 random bytes
createErrorID == Str("eid-", 20)

\* the mutant of normalizeErrorID: an ill-formed errorID becomes null at every level
normalizeErrorID_nullInvalid(errorID, level) ==
    IF level = "error" /\ Falsy(errorID) THEN createErrorID
    ELSE IF Falsy(errorID) THEN Null
    ELSE IF isValidErrorID(errorID) THEN errorID
    ELSE Null

normalizeErrorID(errorID, level) ==
    IF level = "error" /\ Falsy(errorID) THEN createErrorID
    ELSE IF Falsy(errorID) THEN Null
    ELSE IF isValidErrorID(errorID) THEN errorID
    ELSE IF level = "error" THEN createErrorID ELSE Null

\* the fields of a LogEntry that the model follows: one that is always there,
\* one that may be null, one that is optional, and the alert flag
Fields == {"message", "errorID", "meta", "sendDiscordWebhook"}

\* a field that is Undefined is a key the object does not have
NoEntry == [f \in Fields |-> Undefined]

\* the LogEntry built by ScopedLogger.log
logEntry(level, entries) ==
    [f \in Fields |->
        CASE f = "message" -> entries.message
          [] f = "errorID" -> normalizeErrorID(entries.errorID, level)
          [] f = "meta" -> IF Falsy(entries.meta) THEN Undefined ELSE entries.meta
          [] f = "sendDiscordWebhook" ->
                IF entries.sendDiscordWebhook \in {Undefined, Null}
                THEN Bool(FALSE) ELSE entries.sendDiscordWebhook]

\* DEFAULT_COMPONENTS, restricted to Fields
DEFAULT_COMPONENTS(transportType) ==
    IF transportType = "discord" THEN {"message", "errorID"} ELSE Fields

\* a transport's `entries` setting: 'default', or an explicit list of components
ComponentSettings ==
    {[default |-> TRUE, list |-> {}]} \cup {[default |-> FALSE, list |-> l] : l \in SUBSET Fields}

filterLogEntry(entry, components, transportType) ==
    LET componentList == IF components.default THEN DEFAULT_COMPONENTS(transportType)
                         ELSE components.list
    IN  [f \in Fields |->
            IF f \in componentList /\ entry[f] # Undefined
            THEN IF entry[f] # Null THEN entry[f]
                 ELSE IF f \in {"sessionID", "errorID"} THEN Null ELSE Undefined
            ELSE Undefined]

\* the filtered object alone
Spread_filteredOnly(a, b) == b

\* { ...a, ...b }
Spread(a, b) == [f \in Fields |-> IF b[f] # Undefined THEN b[f] ELSE a[f]]

\* Winston's npm levels, the most severe first
levelRank(level) ==
    CASE level = "error" -> 0
      [] level = "warn" -> 1
      [] level = "info" -> 2
      [] level = "silly" -> 6

\* createTransports: level: discordConfig.level || 'error' for the Discord
\* transport, fileConfig.level || config.level || 'silly' for the file transport
transportLevel(transportType, configured) ==
    IF configured # Absent THEN configured
    ELSE IF transportType = "discord" THEN "error" ELSE "silly"

\* a transport is handed the entries at its level and the more severe ones
admits(transportType, configured, level) ==
    levelRank(transportLevel(transportType, configured)) >= levelRank(level)

\* the transform of the format returned by createFilterFormat
createFilterFormat(info, components, transportType) ==
    Spread(info, filterLogEntry(info, components, transportType))

----------------------------------------------------------------------------
(* Idle values of the variables a specification does not use *)

NoHeaders == [remaining |-> Absent, resetAfter |-> Absent]

\* rl_last: the method, its arguments (ep, headers, retryAfter) and its result
RLNone == [op |-> "none", ep |-> "none", headers |-> NoHeaders, retryAfter |-> 0,
           retBool |-> FALSE, retNum |-> 0]

TruncIdle == t_str = <<>> /\ t_limit = 1 /\ t_outs = <<>>
SerIdle ==
    /\ s_chain = <<>> /\ s_depth = 1 /\ s_out = <<>> /\ s_done = FALSE
    /\ s_threw = FALSE /\ s_visited = {}
RLIdle == now = 0 /\ state = [u \in Endpoints |-> NoState] /\ rl_last = RLNone
TxIdle == urls = <<>> /\ maxRetries = 0 /\ disp = [d \in Dispatches |-> IdleDispatch]

NoCall == [level |-> "none", message |-> Undefined, errorID |-> Undefined, meta |-> Undefined,
           sendDiscordWebhook |-> Undefined,
           components |-> [default |-> TRUE, list |-> {}], transportType |-> "none",
           transportLevel |-> Absent]
EntryIdle == e_call = NoCall /\ e_logEntry = NoEntry /\ e_info = NoEntry /\ e_pc = "idle"
RetryAfterIdle ==
    /\ g_resp = [status |-> 429, retryAfterHeader |-> Absent, body |-> NoBody]
    /\ g_delay = 0
    /\ g_done = FALSE

----------------------------------------------------------------------------
(* SpecTrunc: truncateString applied to a bounded string, then to its result *)

InitTrunc ==
    /\ phase = "trunc"
    /\ t_str \in SeqsOf(Chars, 0, MaxStrLen)
    /\ t_limit \in 1..MaxLimit
    /\ t_outs = <<>>
    /\ SerIdle /\ RLIdle /\ TxIdle /\ EntryIdle /\ RetryAfterIdle

Truncate ==
    /\ phase = "trunc"
    /\ Len(t_outs) < 2
    /\ t_outs' = Append(t_outs,
                        truncateString(IF t_outs = <<>> THEN t_str ELSE t_outs[Len(t_outs)],
                                       t_limit))
    /\ UNCHANGED <<phase, t_str, t_limit, serVars, rlVars, rl_last, txVars, entryVars, retryAfterVars>>

NextTrunc == Truncate

SpecTrunc == InitTrunc /\ [][NextTrunc]_vars

----------------------------------------------------------------------------
(* SpecSer: serializeError applied to a bounded cause chain *)

InitSer ==
    /\ phase = "ser"
    /\ s_chain \in SeqsOf(InputNodes, 1, MaxChain)
    /\ s_depth \in 1..MaxCauseDepth
    /\ s_out = <<>>
    /\ s_done = FALSE
    /\ s_threw = FALSE
    /\ s_visited = {}
    /\ TruncIdle /\ RLIdle /\ TxIdle /\ EntryIdle /\ RetryAfterIdle

Serialize ==
    /\ phase = "ser"
    /\ ~s_done
    /\ LET out == serializeError(s_chain, s_depth)
       IN  /\ s_threw' = Throws(out)
           /\ s_out' = IF Throws(out) THEN <<>> ELSE out
    /\ s_visited' = serializeError_visits(s_chain, s_depth)
    /\ s_done' = TRUE
    /\ UNCHANGED <<phase, s_chain, s_depth, truncVars, rlVars, rl_last, txVars, entryVars, retryAfterVars>>

NextSer == Serialize

SpecSer == InitSer /\ [][NextSer]_vars

----------------------------------------------------------------------------
(* The clock, shared by SpecRL and Spec *)

Tick ==
    /\ now < MaxTicks * MsPerSec
    /\ now' = now + MsPerSec
    /\ rl_last' = RLNone
    /\ UNCHANGED <<phase, truncVars, serVars, state, txVars, entryVars, retryAfterVars>>

----------------------------------------------------------------------------
(* SpecRL: the rate limiter's methods called in any order, at any time *)

RetryAfters == {0, 1, 2}

InitRL ==
    /\ phase = "rl"
    /\ TruncIdle /\ SerIdle /\ RLIdle /\ TxIdle /\ EntryIdle /\ RetryAfterIdle

RLFrame == UNCHANGED <<phase, truncVars, serVars, now, txVars, entryVars, retryAfterVars>>

CallIsRateLimited(u) ==
    /\ phase = "rl"
    /\ state' = isRateLimited_state(state, u, now)
    /\ rl_last' = [RLNone EXCEPT !.op = "isRateLimited", !.ep = u,
                                 !.retBool = isRateLimited(state, u, now)]
    /\ RLFrame

CallGetWaitTime(u) ==
    /\ phase = "rl"
    /\ rl_last' = [RLNone EXCEPT !.op = "getWaitTime", !.ep = u,
                                 !.retNum = getWaitTime(state, u, now)]
    /\ UNCHANGED state
    /\ RLFrame

CallRecordSuccess(u, h) ==
    /\ phase = "rl"
    /\ state' = recordSuccess(state, u, h, now)
    /\ rl_last' = [RLNone EXCEPT !.op = "recordSuccess", !.ep = u, !.headers = h]
    /\ RLFrame

CallRecordRateLimit(u, ra) ==
    /\ phase = "rl"
    /\ state' = recordRateLimit(state, u, ra, now)
    /\ rl_last' = [RLNone EXCEPT !.op = "recordRateLimit", !.ep = u, !.retryAfter = ra]
    /\ RLFrame

CallReset(u) ==
    /\ phase = "rl"
    /\ state' = reset(state, u)
    /\ rl_last' = [RLNone EXCEPT !.op = "reset", !.ep = u]
    /\ RLFrame

CallResetAll ==
    /\ phase = "rl"
    /\ state' = resetAll(state)
    /\ rl_last' = [RLNone EXCEPT !.op = "resetAll"]
    /\ RLFrame

NextRL ==
    \/ \E u \in Endpoints : CallIsRateLimited(u)
    \/ \E u \in Endpoints : CallGetWaitTime(u)
    \/ \E u \in Endpoints, h \in SuccessHeaders : CallRecordSuccess(u, h)
    \/ \E u \in Endpoints, ra \in RetryAfters : CallRecordRateLimit(u, ra)
    \/ \E u \in Endpoints : CallReset(u)
    \/ CallResetAll
    \/ Tick

SpecRL == InitRL /\ [][NextRL]_vars

----------------------------------------------------------------------------
(* Spec: log calls through the transport *)

UrlConfigs == {<<>>, <<"A">>, <<"A", "B">>}

\* what the caller passes as entries.sendDiscordWebhook: the first log call may
\* ask for an alert, the second never does
FlagsOf(d) == IF d = 1 THEN {"true", "false", Absent} ELSE {"false", Absent}

Init ==
    /\ phase = "tx"
    /\ urls \in UrlConfigs
    /\ maxRetries \in 0..MaxRetries
    /\ disp = [d \in Dispatches |-> IdleDispatch]
    /\ TruncIdle /\ SerIdle /\ RLIdle /\ EntryIdle /\ RetryAfterIdle

TxFrame == UNCHANGED <<phase, truncVars, serVars, now, rl_last, urls, maxRetries, entryVars, retryAfterVars>>

\* a scoped logger's log method is called
Log(d, f) ==
    /\ phase = "tx"
    /\ disp[d].pc = "idle"
    /\ LET r == logCall(disp[d], state, f, now)
       IN  disp' = [disp EXCEPT ![d] = r.dr] /\ state' = r.st
    /\ TxFrame

\* What the transport's earlier log calls, which are not tracked here, left in
\* the rate limiter: before the first tracked log call, the answer to an earlier
\* POST to u is recorded, as sendToWebhook does on a success and on a 429.
EarlierResponses ==
    {[status |-> 200, headers |-> [remaining |-> "0", resetAfter |-> "1"]],
     [status |-> 429, retryAfterHeader |-> "1", body |-> NoBody]}

Earlier(u, resp) ==
    /\ phase = "tx"
    /\ now = 0
    /\ \A d \in Dispatches : disp[d].pc = "idle"
    /\ state[u] = NoState
    /\ state' = IF resp.status = 200
                THEN recordSuccess(state, u, resp.headers, now)
                ELSE recordRateLimit(state, u, getRetryAfter(resp), now)
    /\ UNCHANGED disp
    /\ TxFrame

\* the microtask that resumes sendToDiscord after log() returned
Continue(d) ==
    /\ phase = "tx"
    /\ disp[d].pc = "micro"
    /\ LET r == afterFalse(disp[d], state, disp[d].idx, now)
       IN  disp' = [disp EXCEPT ![d] = r.dr] /\ state' = r.st
    /\ TxFrame

\* the rate-limit sleep ends: the POST is issued
WakeRateLimit(d) ==
    /\ phase = "tx"
    /\ disp[d].pc = "rlwait"
    /\ now >= disp[d].wake
    /\ disp' = [disp EXCEPT ![d] = issueRequest(@, @.idx, @.attempt, now)]
    /\ UNCHANGED state
    /\ TxFrame

\* the endpoint answers the POST in flight
Respond(d, resp) ==
    /\ phase = "tx"
    /\ disp[d].pc = "inflight"
    /\ LET r == onResponse(disp[d], state, resp, now)
       IN  disp' = [disp EXCEPT ![d] = r.dr] /\ state' = r.st
    /\ TxFrame

\* the sleep after a 429 or the backoff ends
WakeRetry(d) ==
    /\ phase = "tx"
    /\ disp[d].pc \in {"retrywait", "backoff"}
    /\ now >= disp[d].wake
    /\ LET r == onRetryTimer(disp[d], state, now)
       IN  disp' = [disp EXCEPT ![d] = r.dr] /\ state' = r.st
    /\ TxFrame

Next ==
    \/ \E u \in Endpoints, resp \in EarlierResponses : Earlier(u, resp)
    \/ \E d \in Dispatches : \E f \in FlagsOf(d) : Log(d, f)
    \/ \E d \in Dispatches : Continue(d)
    \/ \E d \in Dispatches : WakeRateLimit(d)
    \/ \E d \in Dispatches, resp \in Responses : Respond(d, resp)
    \/ \E d \in Dispatches : WakeRetry(d)
    \/ Tick

Spec == Init /\ [][Next]_vars

----------------------------------------------------------------------------
(* SpecLive: one log call, with every POST answered and every timer firing. *)
(* Time matters to a dispatch only through its sleeps: the clock advances     *)
(* while the dispatch sleeps on a timer that is not due yet, for as long as   *)
(* it takes, so that no sleep is cut short by the end of the clock.           *)

Sleeping(d) == disp[d].pc \in {"rlwait", "retrywait", "backoff"}

TickLive ==
    /\ \E d \in Dispatches : Sleeping(d) /\ disp[d].wake > now
    /\ now' = now + MsPerSec
    /\ rl_last' = RLNone
    /\ UNCHANGED <<phase, truncVars, serVars, state, txVars, entryVars, retryAfterVars>>

NextLive ==
    \/ \E u \in Endpoints, resp \in EarlierResponses : Earlier(u, resp)
    \/ \E f \in FlagsOf(1) : Log(1, f)
    \/ \E d \in Dispatches : Continue(d)
    \/ \E d \in Dispatches : WakeRateLimit(d)
    \/ \E d \in Dispatches, resp \in Responses : Respond(d, resp)
    \/ \E d \in Dispatches : WakeRetry(d)
    \/ TickLive

\* microtasks run, every POST settles (axios resolves, rejects or times out),
\* setTimeout callbacks run once due, and time passes
Fairness ==
    /\ \A d \in Dispatches :
          /\ WF_vars(Continue(d))
          /\ WF_vars(WakeRateLimit(d))
          /\ WF_vars(\E resp \in Responses : Respond(d, resp))
          /\ WF_vars(WakeRetry(d))
    /\ WF_vars(TickLive)

SpecLive == Init /\ [][NextLive]_vars /\ Fairness

----------------------------------------------------------------------------
(* SpecConc: two log calls that both ask for an alert, their dispatches       *)
(* interleaved on the one rate limiter of the transport                       *)

ConcUrlConfigs == {<<>>, <<"A">>}

\* one answer of each kind sendToWebhook tells apart
ConcResponses ==
    {[status |-> 200, headers |-> [remaining |-> Absent, resetAfter |-> Absent]],
     [status |-> 429, retryAfterHeader |-> "1", body |-> NoBody],
     [status |-> 400],
     [status |-> 500]}

InitConc ==
    /\ phase = "tx"
    /\ urls \in ConcUrlConfigs
    /\ maxRetries \in 0..MaxRetries
    /\ disp = [d \in Dispatches |-> IdleDispatch]
    /\ TruncIdle /\ SerIdle /\ RLIdle /\ EntryIdle /\ RetryAfterIdle

NextConc ==
    \/ \E d \in Dispatches : Log(d, "true")
    \/ \E d \in Dispatches : Continue(d)
    \/ \E d \in Dispatches : WakeRateLimit(d)
    \/ \E d \in Dispatches, resp \in ConcResponses : Respond(d, resp)
    \/ \E d \in Dispatches : WakeRetry(d)
    \/ Tick

SpecConc == InitConc /\ [][NextConc]_vars

----------------------------------------------------------------------------
(* SpecEntry: one call of a scoped logger's log method, and the entry as a   *)
(* transport gets it from its format                                        *)

Levels == {"error", "warn", "info"}

\* entries.errorID as a caller may pass it: nothing, '', 'eid-', 'eid-1', 'sid-1'
ErrorIDInputs == {Undefined, Str("", 0), Str("eid-", 4), Str("eid-", 5), Str("sid-", 5)}

TransportTypes == {"discord", "file"}

\* the transport's level option: not set, or 'warn'
TransportLevels == {Absent, "warn"}

InitEntry ==
    /\ phase = "entry"
    /\ e_call \in [level : Levels, message : {Str("boom", 4)}, errorID : ErrorIDInputs,
                   meta : {Undefined, Obj},
                   sendDiscordWebhook : {Undefined, Bool(TRUE), Bool(FALSE)},
                   components : ComponentSettings, transportType : TransportTypes,
                   transportLevel : TransportLevels]
    /\ e_logEntry = NoEntry
    /\ e_info = NoEntry
    /\ e_pc = "called"
    /\ TruncIdle /\ SerIdle /\ RLIdle /\ TxIdle /\ RetryAfterIdle

EntryFrame == UNCHANGED <<phase, truncVars, serVars, rlVars, rl_last, txVars, e_call, retryAfterVars>>

\* ScopedLogger.log: build the entry and hand it to Winston
LogCall ==
    /\ phase = "entry"
    /\ e_pc = "called"
    /\ e_logEntry' = logEntry(e_call.level, e_call)
    /\ e_pc' = "logged"
    /\ UNCHANGED e_info
    /\ EntryFrame

\* an entry below the transport's level is not handed to the transport
BelowLevel ==
    /\ phase = "entry"
    /\ e_pc = "logged"
    /\ ~admits(e_call.transportType, e_call.transportLevel, e_call.level)
    /\ e_pc' = "dropped"
    /\ UNCHANGED <<e_logEntry, e_info>>
    /\ EntryFrame

\* the transport applies its format to the entry before it processes it
Transform ==
    /\ phase = "entry"
    /\ e_pc = "logged"
    /\ admits(e_call.transportType, e_call.transportLevel, e_call.level)
    /\ e_info' = createFilterFormat(e_logEntry, e_call.components, e_call.transportType)
    /\ e_pc' = "transformed"
    /\ UNCHANGED e_logEntry
    /\ EntryFrame

\* DiscordWebhookTransport.log gets the transformed entry: it returns at once
\* when the flag is falsy, and starts sendToDiscord otherwise
TransportLog ==
    /\ phase = "entry"
    /\ e_pc = "transformed"
    /\ e_call.transportType = "discord"
    /\ e_pc' = IF Falsy(e_info["sendDiscordWebhook"]) THEN "skipped" ELSE "dispatching"
    /\ UNCHANGED <<e_logEntry, e_info>>
    /\ EntryFrame

NextEntry == LogCall \/ BelowLevel \/ Transform \/ TransportLog

SpecEntry == InitEntry /\ [][NextEntry]_vars

----------------------------------------------------------------------------
(* SpecRetryAfter: getRetryAfter applied to a 429 response *)

\* the retry-after header: missing, empty, not a number, or a number
RetryAfterHeaders == {Absent, "", "abc", "-1", "0", "1", "2", "5"}

\* the body: not an object; an object without retry_after; with a numeric
\* retry_after; with a retry_after that is a string
RetryAfterBodies ==
    {NoBody, [isObject |-> TRUE, kind |-> "none", retry_after |-> 0],
     [isObject |-> TRUE, kind |-> "string", retry_after |-> 1]}
    \cup {BodyRetryAfter(n) : n \in {0, 1, 2, 5}}

InitRetryAfter ==
    /\ phase = "ra"
    /\ g_resp \in [status : {429}, retryAfterHeader : RetryAfterHeaders, body : RetryAfterBodies]
    /\ g_delay = 0
    /\ g_done = FALSE
    /\ TruncIdle /\ SerIdle /\ RLIdle /\ TxIdle /\ EntryIdle

CallGetRetryAfter ==
    /\ phase = "ra"
    /\ ~g_done
    /\ g_delay' = getRetryAfter(g_resp)
    /\ g_done' = TRUE
    /\ UNCHANGED <<phase, truncVars, serVars, rlVars, rl_last, txVars, entryVars, g_resp>>

NextRetryAfter == CallGetRetryAfter

SpecRetryAfter == InitRetryAfter /\ [][NextRetryAfter]_vars

----------------------------------------------------------------------------
(* Properties of truncateString, under SpecTrunc *)

\* C7: for every string longer than a positive limit, the truncated string has
\* exactly limit characters and ends with the marker '...'.
C7_TruncatedToLimit ==
    (Len(t_outs) >= 1 /\ Len(t_str) > t_limit)
        => (Len(t_outs[1]) = t_limit /\ EndsWith(t_outs[1], Ellipsis))

\* C8: truncating an already truncated string at the same limit changes nothing.
C8_TruncateIdempotent ==
    Len(t_outs) = 2 => t_outs[2] = t_outs[1]

\* a string longer than its limit was cut, then truncated again
C8_Witness ==
    /\ Len(t_outs) = 2
    /\ Len(t_str) > t_limit
    /\ t_outs[1] # t_str
    /\ EndsWith(t_outs[2], Ellipsis)

\* C25: for every positive limit, a stack field has at most stackLimit
\* characters and httpDetails.data at most responseDataLimit characters (t_str
\* the stack, or the string form of the response data; t_limit the limit).
C25_FieldsWithinLimits ==
    Len(t_outs) >= 1 =>
        /\ Len(stackField(t_str, t_limit)) <= t_limit
        /\ Len(stringifyAndTruncate(t_str, t_limit)) <= t_limit

\* C26: for every positive maxMessageLength the message sent has at most
\* maxMessageLength characters, and a truncated message is a head of the full
\* message followed by the marker (t_str the full message, t_limit the limit).
C26_MessageWithinLimit ==
    Len(t_outs) >= 1 =>
        LET sent == formatMessage(t_str, t_limit)
        IN  /\ Len(sent) <= t_limit
            /\ sent # t_str =>
                  \E n \in 0..Len(t_str) : sent = SubSeq(t_str, 1, n) \o Ellipsis

----------------------------------------------------------------------------
(* Properties of serializeError, under SpecSer *)

\* the nodes reached from the root by following cause
CauseChain(out) == Tail(out)

\* C1: for every input error, serializeError returns a tree, and the cause
\* chain of that tree has at most causeMaxDepth + 1 nodes, the sentinel
\* included, however deep the input is.
C1_CauseChainBounded ==
    (s_done /\ s_chain[1].like)
        => (/\ ~s_threw
            /\ Len(s_out) >= 1
            /\ Len(CauseChain(s_out)) <= s_depth + 1)

\* an input deeper than the limit was cut at the sentinel: the bound is attained
C1_Witness ==
    /\ s_done
    /\ Len(s_chain) > s_depth + 2
    /\ \A i \in 1..Len(s_chain) : s_chain[i].like
    /\ Len(CauseChain(s_out)) = s_depth + 1
    /\ s_out[Len(s_out)] = Sentinel

\* C22: serializeError never raises: whatever the input, it returns a tree.
C22_NeverRaises ==
    s_done => (~s_threw /\ Len(s_out) >= 1)

\* every value of the input chain is error-like
AllErrorLike == \A i \in 1..Len(s_chain) : s_chain[i].like

\* C23: when the input has more nested causes than causeMaxDepth = N, the N-th
\* nested cause of the result is the sentinel.
C23_SentinelAtDepthN ==
    (s_done /\ AllErrorLike /\ Len(s_chain) - 1 > s_depth)
        => (Len(s_out) >= s_depth + 1 /\ s_out[s_depth + 1] = Sentinel)

\* C24: the number of input cause nodes the call walks is bounded by
\* causeMaxDepth, however deep the input is.
C24_VisitsBounded ==
    s_done => Cardinality(s_visited \ {1}) <= s_depth

----------------------------------------------------------------------------
(* Properties of the rate limiter, under SpecRL *)

\* C2: whenever isRateLimited is called at or after the stored resetAt of the
\* endpoint, it returns false, whatever recorded the state.
C2_NotLimitedAfterReset ==
    (/\ rl_last.op = "isRateLimited"
     /\ state[rl_last.ep] # NoState
     /\ now >= state[rl_last.ep].resetAt)
        => rl_last.retBool = FALSE

\* the methods that name one endpoint
PerEndpointOps == {"isRateLimited", "getWaitTime", "recordSuccess", "recordRateLimit", "reset"}

\* the state map holding what is stored for u and nothing for any other endpoint
Alone(u) == [v \in Endpoints |-> IF v = u THEN state[u] ELSE NoState]

\* C16: a method called for endpoint u leaves the stored state of every other
\* endpoint unchanged, and what it returns and stores for u is what it would
\* return and store if nothing were stored for the others.
C16_PartitionedByEndpoint ==
    [][rl_last'.op \in PerEndpointOps =>
          LET u == rl_last'.ep
              op == rl_last'.op
          IN  /\ \A v \in Endpoints \ {u} : state'[v] = state[v]
              /\ op = "isRateLimited" =>
                    /\ rl_last'.retBool = isRateLimited(Alone(u), u, now)
                    /\ state'[u] = isRateLimited_state(Alone(u), u, now)[u]
              /\ op = "getWaitTime" =>
                    /\ rl_last'.retNum = getWaitTime(Alone(u), u, now)
                    /\ state'[u] = state[u]
              /\ op = "recordSuccess" =>
                    state'[u] = recordSuccess(Alone(u), u, rl_last'.headers, now)[u]
              /\ op = "recordRateLimit" =>
                    state'[u] = recordRateLimit(Alone(u), u, rl_last'.retryAfter, now)[u]
              /\ op = "reset" => state'[u] = NoState]_vars

\* A was reset while B holds a limited state
C16_Witness ==
    /\ rl_last.op = "reset"
    /\ rl_last.ep = "A"
    /\ state["A"] = NoState
    /\ state["B"] # NoState
    /\ state["B"].isLimited

\* C17: getWaitTime returns max(0, resetAt - now) for an endpoint that is
\* limited or has remaining <= 0, and 0 otherwise, an endpoint without stored
\* state included; it leaves the state map unchanged.
C17_WaitTime ==
    [][rl_last'.op = "getWaitTime" =>
          LET s == state[rl_last'.ep]
          IN  /\ state' = state
              /\ rl_last'.retNum =
                    IF s = NoState THEN 0
                    ELSE IF s.isLimited \/ s.remaining <= 0
                         THEN (IF s.resetAt - now >= 0 THEN s.resetAt - now ELSE 0)
                         ELSE 0]_vars

\* the wait of an exhausted window that is not limited
C17_Witness ==
    /\ rl_last.op = "getWaitTime"
    /\ state[rl_last.ep] # NoState
    /\ ~state[rl_last.ep].isLimited
    /\ state[rl_last.ep].remaining = 0
    /\ now > 0
    /\ rl_last.retNum = 1000

\* C18: after recordSuccess the endpoint's state is not limited, its remaining
\* is the number in the remaining header (29 when absent) and its resetAt is now
\* plus the seconds in the reset-after header (2 when absent).
C18_RecordSuccess ==
    rl_last.op = "recordSuccess" =>
        LET s == state[rl_last.ep]
            h == rl_last.headers
        IN  /\ s # NoState
            /\ ~s.isLimited
            /\ s.remaining = (IF h.remaining = Absent THEN 29 ELSE parseNumber(h.remaining))
            /\ s.resetAt = now + 1000 * (IF h.resetAfter = Absent THEN 2
                                         ELSE parseNumber(h.resetAfter))

\* a success with both headers present was recorded after the first second
C18_Witness ==
    /\ rl_last.op = "recordSuccess"
    /\ rl_last.headers = [remaining |-> "5", resetAfter |-> "1"]
    /\ now = 1000
    /\ state[rl_last.ep].remaining = 5
    /\ state[rl_last.ep].resetAt = 2000

\* C19: recordRateLimit stores remaining = 0, limited = true and resetAt = now +
\* retryAfter seconds; called right after it, isRateLimited returns true and
\* getWaitTime returns the retry delay.
C19_RecordRateLimit ==
    [][/\ rl_last'.op = "recordRateLimit" =>
             LET s == state'[rl_last'.ep]
             IN  /\ s # NoState
                 /\ s.remaining = 0
                 /\ s.isLimited
                 /\ s.resetAt = now + 1000 * rl_last'.retryAfter
       /\ (rl_last.op = "recordRateLimit" /\ rl_last'.ep = rl_last.ep) =>
             /\ rl_last'.op = "isRateLimited" => rl_last'.retBool
             /\ rl_last'.op = "getWaitTime" => rl_last'.retNum = 1000 * rl_last.retryAfter]_vars

\* C20: every stored state has an integer remaining >= 0, whatever the methods
\* called and the headers passed.
C20_RemainingNonNegative ==
    \A u \in Endpoints : state[u] # NoState => state[u].remaining \in Nat

----------------------------------------------------------------------------
(* Properties of the transport, under Spec *)

Terminal(d) == disp[d].pc \in {"succeeded", "exhausted"}

\* position of an endpoint in webhookUrls (the configured endpoints are distinct)
Pos(u) == CHOOSE i \in 1..Len(urls) : urls[i] = u

\* the attempts of dispatch d on endpoint u, as positions in its history
AttemptsOn(d, u) == {k \in 1..Len(disp[d].hist) : disp[d].hist[k].ep = u}

\* the statuses endpoint u has answered to dispatch d
AnswersOf(d, u) == {disp[d].hist[k].st : k \in AttemptsOn(d, u)} \ {Pending}

IsAbort(st) == st >= 400 /\ st < 500 /\ st # 429

\* endpoint u has failed in dispatch d: a non-429 client error ended it, or it
\* has used all of its maxRetries attempts without a success
EndpointFailed(d, u) ==
    LET ks == AttemptsOn(d, u)
        h == disp[d].hist
    IN  /\ \A k \in ks : h[k].st \notin {200, Pending}
        /\ \/ \E k \in ks : IsAbort(h[k].st)
           \/ Cardinality(ks) = maxRetries

\* attempts follow the order of the list, and an endpoint is first attempted
\* only after its predecessor has failed
InListOrder(d) ==
    LET h == disp[d].hist
    IN  /\ Len(h) >= 1 => h[1].ep = urls[1]
        /\ \A k \in 2..Len(h) :
              \/ h[k].ep = h[k - 1].ep
              \/ /\ Pos(h[k].ep) = Pos(h[k - 1].ep) + 1
                 /\ EndpointFailed(d, h[k - 1].ep)

\* the scenario of C3 on a finished dispatch: list [A, B], A has answered only
\* 500, B only 200; then the dispatch succeeded via B after maxRetries attempts
\* on A
FailoverScenario(d) ==
    (/\ urls = <<"A", "B">>
     /\ Terminal(d)
     /\ AnswersOf(d, "A") \subseteq {500}
     /\ AnswersOf(d, "B") \subseteq {200})
        => (/\ disp[d].pc = "succeeded"
            /\ disp[d].hist[Len(disp[d].hist)] = [ep |-> "B", st |-> 200]
            /\ Cardinality(AttemptsOn(d, "A")) = maxRetries
            /\ Cardinality(AttemptsOn(d, "B")) = 1)

\* C3 as stated: endpoints are attempted strictly in list order, and with list
\* [A, B], A always answering 500 and B answering 200, the dispatch ends
\* Succeeded via B after A received its maxRetries attempts.
C3_Original ==
    \A d \in Dispatches :
        disp[d].flagIn = "true" => (InListOrder(d) /\ FailoverScenario(d))

\* C3 amended: the same, the scenario for maxRetries >= 1.
C3_FailoverInOrder ==
    \A d \in Dispatches :
        disp[d].flagIn = "true"
            => (InListOrder(d) /\ (maxRetries >= 1 => FailoverScenario(d)))

\* A failed twice with 500, then B answered 200
C3_Witness ==
    \E d \in Dispatches :
        /\ maxRetries = 2
        /\ disp[d].pc = "succeeded"
        /\ disp[d].hist = <<[ep |-> "A", st |-> 500], [ep |-> "A", st |-> 500],
                            [ep |-> "B", st |-> 200]>>

\* C4: a single endpoint answering 429 with Retry-After r, then 200
\* (maxRetries >= 2): the dispatch is Succeeded after exactly two attempts, the
\* second issued no earlier than r seconds after the 429 arrived.
C4_RetryAfter429 ==
    \A d \in Dispatches :
        LET h == disp[d].hist
        IN  (/\ Len(urls) = 1
             /\ maxRetries >= 2
             /\ Len(h) >= 2
             /\ h[1].st = 429
             /\ h[2].st = 200
             /\ disp[d].last429.header # Absent)
                => (/\ disp[d].pc = "succeeded"
                    /\ Len(h) = 2
                    /\ disp[d].issuedAt
                          >= disp[d].last429.at
                             + parseNumber(disp[d].last429.header) * 1000)

\* a 429 with Retry-After: 1 was followed by a 200 on the second attempt
C4_Witness ==
    \E d \in Dispatches :
        /\ Len(urls) = 1
        /\ maxRetries >= 2
        /\ disp[d].pc = "succeeded"
        /\ disp[d].last429.header = "1"
        /\ disp[d].hist = <<[ep |-> "A", st |-> 429], [ep |-> "A", st |-> 200]>>

\* an endpoint that answered a 4xx other than 429 receives no further attempt
NoAttemptAfterAbort(d) ==
    LET h == disp[d].hist
    IN  \A k \in 1..Len(h) :
            IsAbort(h[k].st) => \A j \in (k + 1)..Len(h) : h[j].ep # h[k].ep

\* a finished dispatch to a single endpoint that answers 400 has failed after
\* exactly one attempt
Single400Scenario(d) ==
    (/\ Len(urls) = 1
     /\ Terminal(d)
     /\ AnswersOf(d, urls[1]) \subseteq {400})
        => (/\ disp[d].pc = "exhausted"
            /\ Len(disp[d].hist) = 1)

\* C5 as stated: after a 4xx other than 429 the endpoint receives no further
\* attempt, whatever maxRetries is; with a single endpoint answering 400 the
\* dispatch fails after exactly one attempt.
C5_Original ==
    \A d \in Dispatches :
        disp[d].flagIn = "true" => (NoAttemptAfterAbort(d) /\ Single400Scenario(d))

\* C5 amended: the same, the single-endpoint scenario for maxRetries >= 1.
C5_NoRetryOnClientError ==
    \A d \in Dispatches :
        disp[d].flagIn = "true"
            => (NoAttemptAfterAbort(d) /\ (maxRetries >= 1 => Single400Scenario(d)))

\* with maxRetries = 2 a single endpoint answered 400 and the dispatch failed
C5_Witness ==
    \E d \in Dispatches :
        /\ maxRetries = 2
        /\ disp[d].pc = "exhausted"
        /\ disp[d].errors = 1
        /\ disp[d].hist = <<[ep |-> "A", st |-> 400]>>

\* C6: a log call whose alert flag is unset or false issues no request, changes
\* no rate-limit state and emits no failure event, whatever else is going on.
C6_UnflaggedIsNoOp ==
    [][\A d \in Dispatches :
          (disp'[d].pc # "idle" /\ disp'[d].flagIn # "true")
              => (/\ disp'[d].pc = "skipped"
                  /\ disp'[d].hist = <<>>
                  /\ disp'[d].errors = 0
                  /\ ~disp'[d].raised
                  /\ disp[d].pc = "idle" => state' = state)]_vars

\* an entry logged without the flag was skipped while the rate limiter holds
\* state and another dispatch is in flight
C6_Witness ==
    \E d, e \in Dispatches :
        /\ disp[d].pc = "skipped"
        /\ disp[d].flagIn = Absent
        /\ disp[e].pc = "inflight"
        /\ \E u \in Endpoints : state[u] # NoState

\* every endpoint of the list has failed in dispatch d
EveryEndpointFailed(d) ==
    \A i \in 1..Len(urls) : EndpointFailed(d, urls[i])

\* C9: the failure event is emitted exactly once when every endpoint failed and
\* never otherwise; a dispatch that obtained a success emits none; nothing is
\* raised into the caller of log.
C9_FailureEventOnce ==
    \A d \in Dispatches :
        /\ disp[d].errors \in {0, 1}
        /\ ~disp[d].raised
        /\ disp[d].errors = 1 <=> disp[d].pc = "exhausted"
        /\ disp[d].pc = "exhausted" => EveryEndpointFailed(d)
        /\ (Terminal(d) /\ EveryEndpointFailed(d)) => disp[d].errors = 1
        /\ (\E k \in 1..Len(disp[d].hist) : disp[d].hist[k].st = 200)
              => (disp[d].errors = 0 /\ disp[d].pc = "succeeded")

\* both endpoints failed and the event was emitted once
C9_Witness ==
    \E d \in Dispatches :
        /\ urls = <<"A", "B">>
        /\ maxRetries >= 1
        /\ disp[d].pc = "exhausted"
        /\ disp[d].errors = 1
        /\ AttemptsOn(d, "A") # {}
        /\ AttemptsOn(d, "B") # {}

\* C10: log invokes its callback exactly once, before it returns, for flagged and
\* unflagged entries alike: every later step of the dispatch (an answer, the end
\* of a rate-limit wait or of a backoff) finds the callback already invoked.
C10_CallbackBeforeDelivery ==
    [][\A d \in Dispatches :
          disp'[d] # disp[d]
              => IF disp[d].pc = "idle"
                 THEN disp[d].callbacks = 0 /\ disp'[d].callbacks = 1
                 ELSE disp[d].callbacks = 1 /\ disp'[d].callbacks = 1]_vars

\* the callback of a flagged entry was invoked while its first POST has no
\* answer yet
C10_Witness ==
    \E d \in Dispatches :
        /\ disp[d].flagIn = "true"
        /\ disp[d].pc = "inflight"
        /\ disp[d].callbacks = 1
        /\ disp[d].hist = <<[ep |-> urls[1], st |-> Pending]>>

\* dispatch d is done with endpoint u: it failed as a whole, or it has moved on
\* to an endpoint further down the list
PastEndpoint(d, u) ==
    \/ disp[d].pc = "exhausted"
    \/ \E k \in 1..Len(disp[d].hist) : Pos(disp[d].hist[k].ep) > Pos(u)

\* C11: in every dispatch each endpoint receives at most maxRetries attempts,
\* those answered by 429 included; an endpoint that only ever failed with 5xx or
\* network errors has received exactly maxRetries attempts once the dispatch is
\* done with it.
C11_AttemptBudget ==
    \A d \in Dispatches :
        \A i \in 1..Len(urls) :
            LET u == urls[i]
            IN  /\ Cardinality(AttemptsOn(d, u)) <= maxRetries
                /\ (/\ PastEndpoint(d, u)
                    /\ \A k \in AttemptsOn(d, u) : disp[d].hist[k].st \in {500, NetError})
                       => Cardinality(AttemptsOn(d, u)) = maxRetries

\* A used its two attempts on a 429 and a network error, then B used its two
C11_Witness ==
    \E d \in Dispatches :
        /\ maxRetries = 2
        /\ urls = <<"A", "B">>
        /\ Len(disp[d].hist) = 4
        /\ disp[d].hist[1] = [ep |-> "A", st |-> 429]
        /\ disp[d].hist[2] = [ep |-> "A", st |-> NetError]
        /\ disp[d].hist[3] = [ep |-> "B", st |-> 500]
        /\ disp[d].hist[4] = [ep |-> "B", st |-> 500]

\* C12: the step in which an attempt is answered by a success records the
\* endpoint as not limited and ends the dispatch as Succeeded; a succeeded
\* dispatch does nothing more, so a success is always the last attempt of its
\* dispatch and there is at most one.
C12_SuccessStops ==
    [][\A d \in Dispatches :
          LET h == disp[d].hist
              h2 == disp'[d].hist
          IN  /\ (/\ Len(h) >= 1 /\ Len(h2) = Len(h)
                  /\ h[Len(h)].st = Pending /\ h2[Len(h)].st = 200)
                     => (/\ disp'[d].pc = "succeeded"
                         /\ state'[h[Len(h)].ep] # NoState
                         /\ ~state'[h[Len(h)].ep].isLimited)
              /\ disp[d].pc = "succeeded" => disp'[d] = disp[d]
              /\ \A k \in 1..Len(h2) :
                    h2[k].st = 200 => (k = Len(h2) /\ disp'[d].pc = "succeeded")]_vars

\* a success on A after a 429 left A not limited; B was never attempted
C12_Witness ==
    \E d \in Dispatches :
        /\ urls = <<"A", "B">>
        /\ disp[d].pc = "succeeded"
        /\ disp[d].hist = <<[ep |-> "A", st |-> 429], [ep |-> "A", st |-> 200]>>
        /\ state["A"] # NoState
        /\ ~state["A"].isLimited

\* C13: every started dispatch eventually reaches Succeeded or Exhausted when
\* every POST is answered and every timer fires, and a dispatch in a terminal
\* state does nothing more.
C13_DispatchTerminates ==
    /\ \A d \in Dispatches : (disp[d].flagIn = "true") ~> Terminal(d)
    /\ [][\A d \in Dispatches : Terminal(d) => disp'[d] = disp[d]]_vars

\* a dispatch ended Exhausted after both endpoints used all their attempts and
\* every backoff was slept out
C13_Witness ==
    \E d \in Dispatches :
        /\ urls = <<"A", "B">>
        /\ maxRetries = 2
        /\ disp[d].pc = "exhausted"
        /\ Len(disp[d].hist) = 4
        /\ \A k \in 1..4 : disp[d].hist[k].st \in {500, NetError}

\* C14: whenever a limited state is recorded for an endpoint, its resetAt is
\* strictly later than the time of recording, whatever retry delay the 429
\* carried.
C14_ResetAtInFuture ==
    [][\A u \in Endpoints :
          (state'[u] # NoState /\ state'[u] # state[u] /\ state'[u].isLimited)
              => state'[u].resetAt > now]_vars

\* dispatch d receives the answer to its POST in this step, with this status
Answered(d, status) ==
    LET h == disp[d].hist
    IN  /\ Len(h) >= 1
        /\ Len(disp'[d].hist) = Len(h)
        /\ h[Len(h)].st = Pending
        /\ disp'[d].hist[Len(h)].st = status

\* C28: when attempt number k on an endpoint fails with a 5xx or without a
\* response, the dispatch sleeps a timer of exactly retryDelay * 2^k, and does
\* nothing more until that timer is due.
C28_BackoffDelay ==
    [][\A d \in Dispatches :
          /\ (Answered(d, 500) \/ Answered(d, NetError)) =>
                /\ disp'[d].pc = "backoff"
                /\ disp'[d].attempt = disp[d].attempt
                /\ disp'[d].wake = now + retryDelay * (2 ^ disp[d].attempt)
          /\ (disp[d].pc = "backoff" /\ disp'[d] # disp[d]) => now >= disp[d].wake]_vars

\* the second attempt (k = 1) has just failed: the timer is set two seconds on
C28_Witness ==
    \E d \in Dispatches :
        /\ disp[d].pc = "backoff"
        /\ disp[d].attempt = 1
        /\ disp[d].hist[Len(disp[d].hist)].st = NetError
        /\ disp[d].wake = now + 2000

----------------------------------------------------------------------------
(* Properties of concurrent dispatches, under SpecConc *)

\* C15: a stored state goes from limited to not limited only by the lazy
\* expiry of isRateLimited, at or after its resetAt; no other step, whichever
\* dispatch takes it, clears limited.
C15_OnlyLazyExpiry ==
    [][\A u \in Endpoints :
          (/\ state[u] # NoState /\ state[u].isLimited
           /\ state'[u] # NoState /\ ~state'[u].isLimited)
              => (/\ now >= state[u].resetAt
                  /\ state'[u] = [state[u] EXCEPT !.isLimited = FALSE,
                                                  !.remaining = defaultLimit])]_vars

\* the state a record operation stores for the answer resp received at time t,
\* whatever was stored before
Written(resp, t) ==
    IF resp.status = 200
    THEN [remaining |-> IF resp.headers.remaining = Absent THEN 29
                        ELSE parseNumber(resp.headers.remaining),
          resetAt |-> t + 1000 * (IF resp.headers.resetAfter = Absent THEN 2
                                  ELSE parseNumber(resp.headers.resetAfter)),
          isLimited |-> FALSE,
          retryAfter |-> 0]
    ELSE [remaining |-> 0,
          resetAt |-> t + 1000 * getRetryAfter(resp),
          isLimited |-> TRUE,
          retryAfter |-> getRetryAfter(resp)]

\* C21: with dispatches interleaved on one endpoint, every answer recorded (a
\* success or a 429) leaves exactly the state that record operation writes,
\* whatever the other dispatch had stored, and the stored state changes in no
\* other way than by such a record or by the lazy expiry of a limit.
C21_LastWriterWins ==
    [][\A u \in Endpoints :
          /\ \A d \in Dispatches :
                (disp[d].pc = "inflight" /\ urls[disp[d].idx] = u
                 /\ (Answered(d, 200) \/ Answered(d, 429)))
                    => \E resp \in ConcResponses :
                          /\ Answered(d, resp.status)
                          /\ state'[u] = Written(resp, now)
          /\ state'[u] # state[u] =>
                \/ /\ state[u] # NoState
                   /\ state[u].isLimited
                   /\ now >= state[u].resetAt
                   /\ state'[u] = [state[u] EXCEPT !.isLimited = FALSE,
                                                   !.remaining = defaultLimit]
                \/ \E d \in Dispatches :
                      /\ disp[d].pc = "inflight" /\ urls[disp[d].idx] = u
                      /\ (Answered(d, 200) \/ Answered(d, 429))]_vars

\* the success of one dispatch was recorded over the 429 of the other, which
\* is still sleeping its retry delay
C21_Witness ==
    \E d, e \in Dispatches :
        /\ disp[d].pc = "retrywait"
        /\ disp[d].wake > now
        /\ disp[e].pc = "succeeded"
        /\ state["A"] # NoState
        /\ ~state["A"].isLimited
        /\ state["A"].remaining = 29

\* C27: no POST is issued to an endpoint whose recorded state is limited or
\* exhausted with resetAt still in the future, in any interleaving.
C27_NoAttemptWhileLimited ==
    [][\A d \in Dispatches :
          Len(disp'[d].hist) > Len(disp[d].hist) =>
              LET s == state'[disp'[d].hist[Len(disp'[d].hist)].ep]
              IN  ~(/\ s # NoState
                    /\ (s.isLimited \/ s.remaining <= 0)
                    /\ s.resetAt > now)]_vars

----------------------------------------------------------------------------
(* Properties of the log entry, under SpecEntry *)

\* C29: a transport configured with an explicit component list gets only the
\* listed fields: every field of the entry that is not in the list is absent
\* from the entry the transport processes.
C29_OnlyListedFields ==
    (e_pc = "transformed" /\ ~e_call.components.default) =>
        \A f \in Fields \ e_call.components.list : e_info[f] = Undefined

\* a string of the form eid-...
EidForm(v) == v.type = "string" /\ v.val = "eid-" /\ v.len > 4

\* C30: an entry logged at error level carries a non-null errorID of the form
\* eid-..., generated when none or an ill-formed one is supplied; an entry at
\* any other level carries errorID = null unless a well-formed one was supplied.
C30_ErrorIDByLevel ==
    e_pc \in {"logged", "transformed"} =>
        LET id == e_logEntry["errorID"]
            supplied == e_call.errorID
        IN  /\ EidForm(supplied) => id = supplied
            /\ e_call.level = "error" =>
                  /\ EidForm(id)
                  /\ ~EidForm(supplied) => id = createErrorID
            /\ (e_call.level # "error" /\ ~EidForm(supplied)) => id = Null

\* C30: an error-level call that supplied an ill-formed errorID got a generated one
C30_Witness ==
    /\ e_pc = "logged"
    /\ e_call.level = "error"
    /\ e_call.errorID = Str("sid-", 5)
    /\ e_logEntry["errorID"] = createErrorID

----------------------------------------------------------------------------
(* Properties of the transport: the message, failover, suspension *)

\* the log call d asked for an alert and log() has run
Dispatched(d) == disp[d].pc \notin {"idle", "skipped"}

\* C31: the alert message of a dispatch is built once, before the first
\* attempt, and that same message is the payload of every attempt to every
\* endpoint of the dispatch; a log call that is not dispatched builds none.
C31_FormattedOnce ==
    \A d \in Dispatches :
        /\ Dispatched(d) =>
              /\ disp[d].formats = 1
              /\ disp[d].message # <<>>
              /\ Len(disp[d].payloads) = Len(disp[d].hist)
              /\ \A k \in 1..Len(disp[d].payloads) : disp[d].payloads[k] = disp[d].message
        /\ ~Dispatched(d) => (disp[d].formats = 0 /\ disp[d].payloads = <<>>)

\* C31: a dispatch that made two attempts on A and a third on B, all three with
\* the one message
C31_Witness ==
    \E d \in Dispatches :
        /\ Len(disp[d].hist) = 3
        /\ disp[d].hist[1].ep = "A" /\ disp[d].hist[2].ep = "A" /\ disp[d].hist[3].ep = "B"
        /\ disp[d].formats = 1
        /\ \A k \in 1..3 : disp[d].payloads[k] = disp[d].message

\* the POST of dispatch d in flight is answered with status; the same step may
\* go on to issue the next POST
Got(d, status) ==
    LET h == disp[d].hist
    IN  /\ Len(h) >= 1
        /\ h[Len(h)].st = Pending
        /\ Len(disp'[d].hist) >= Len(h)
        /\ disp'[d].hist[Len(h)].st = status

\* C32: a 4xx answer other than 429 ends the endpoint only: when a next
\* endpoint exists the dispatch goes on to it with a fresh attempt counter (its
\* POST is issued, after the rate-limit wait if that endpoint is limited) and
\* emits no failure; the dispatch is Exhausted only past the last endpoint.
C32_ClientErrorFailover ==
    [][\A d \in Dispatches :
          LET i == disp[d].idx
              h == disp[d].hist
          IN  /\ Got(d, 400) =>
                    IF i < Len(urls)
                    THEN /\ disp'[d].idx = i + 1
                         /\ disp'[d].attempt = 0
                         /\ disp'[d].errors = disp[d].errors
                         /\ \/ /\ disp'[d].pc = "inflight"
                               /\ Len(disp'[d].hist) = Len(h) + 1
                               /\ disp'[d].hist[Len(h) + 1] = [ep |-> urls[i + 1], st |-> Pending]
                            \/ /\ disp'[d].pc = "rlwait"
                               /\ Len(disp'[d].hist) = Len(h)
                    ELSE /\ disp'[d].pc = "exhausted"
                         /\ Len(disp'[d].hist) = Len(h)
              /\ (disp[d].pc = "rlwait" /\ disp'[d] # disp[d]) =>
                    /\ disp'[d].pc = "inflight"
                    /\ disp'[d].hist = Append(h, [ep |-> urls[i], st |-> Pending])
              /\ disp'[d].pc = "exhausted" => disp'[d].idx = Len(urls)]_vars

\* C32: A answered 400 to the first attempt and B was attempted next
C32_Witness ==
    \E d \in Dispatches :
        /\ urls = <<"A", "B">>
        /\ maxRetries = 2
        /\ Len(disp[d].hist) = 2
        /\ disp[d].hist[1] = [ep |-> "A", st |-> 400]
        /\ disp[d].hist[2].ep = "B"

\* C33: a dispatch sleeps after a failed attempt only when a further attempt on
\* the same endpoint follows the sleep: once the last permitted attempt has
\* failed it moves on without a wait.
C33_NoWaitAfterLastAttempt ==
    [][\A d \in Dispatches :
          (disp[d].pc = "inflight" /\ disp'[d].pc \in {"backoff", "retrywait"})
              => disp[d].attempt + 1 < maxRetries]_vars

----------------------------------------------------------------------------
(* Properties of getRetryAfter, under SpecRetryAfter *)

\* the header is there and is a number
HeaderNumeric(resp) == resp.retryAfterHeader \in {"-1", "0", "1", "2", "5"}

\* the body is an object with a numeric retry_after field
BodyNumeric(resp) == resp.body.isObject /\ resp.body.kind = "number"

\* C34: the retry delay of a 429 is the Retry-After header when it is present
\* and numeric, otherwise the body's numeric retry_after when present, otherwise
\* 2 seconds, for every value of the two, 0 included.
C34_RetryAfterPrecedence ==
    g_done =>
        g_delay = IF HeaderNumeric(g_resp) THEN parseNumber(g_resp.retryAfterHeader)
                  ELSE IF BodyNumeric(g_resp) THEN g_resp.body.retry_after
                  ELSE 2

----------------------------------------------------------------------------
(* Properties of the transport's use of the rate limiter *)

\* the limit stored for u lapses in this step, as isRateLimited does it
Expires(u) ==
    /\ state[u] # NoState
    /\ state[u].isLimited
    /\ now >= state[u].resetAt
    /\ state'[u] = [state[u] EXCEPT !.isLimited = FALSE, !.remaining = defaultLimit]

\* dispatch d receives a success or a 429 from u in this step
Recorded(d, u) ==
    /\ disp[d].pc = "inflight"
    /\ urls[disp[d].idx] = u
    /\ (Got(d, 200) \/ Got(d, 429))

\* the answer to a POST of an earlier log call is recorded for u
EarlierRecorded(u) ==
    /\ \A d \in Dispatches : disp[d].pc = "idle"
    /\ state[u] = NoState
    /\ \E resp \in EarlierResponses : state'[u] = Written(resp, now)

\* C35: the state stored for an endpoint changes only when a success or a 429
\* is recorded for it or when its limit lapses inside isRateLimited; a 5xx, a
\* failure without response and a non-429 4xx leave the stored state alone, as
\* does issuing an attempt.
C35_StateChangesOnlyOnRecord ==
    [][/\ \A u \in Endpoints :
             state'[u] # state[u] =>
                 \/ Expires(u)
                 \/ EarlierRecorded(u)
                 \/ \E d \in Dispatches : Recorded(d, u)
       /\ \A d \in Dispatches :
             /\ (Got(d, 500) \/ Got(d, NetError)) => state' = state
             /\ Got(d, 400) =>
                   /\ state'[urls[disp[d].idx]] = state[urls[disp[d].idx]]
                   /\ \A u \in Endpoints : (state'[u] = state[u] \/ Expires(u))
             /\ (disp[d].pc = "rlwait" /\ disp'[d].pc = "inflight") => state' = state]_vars

\* C35: an attempt on a limited endpoint was issued and answered 500, and the
\* limit recorded before is still stored as it was
C35_Witness ==
    \E d \in Dispatches :
        /\ disp[d].pc = "backoff"
        /\ disp[d].hist = <<[ep |-> "A", st |-> 500]>>
        /\ state["A"] = [remaining |-> 0, resetAt |-> 1000, isLimited |-> TRUE, retryAfter |-> 1]

\* C37: a dispatch starts a rate-limit wait only for an endpoint whose resetAt
\* lies ahead, the wait lasts resetAt - now, and it ends with the POST being
\* issued; an endpoint reported limited whose wait time is 0 gets its attempt
\* at once.
C37_RateLimitWait ==
    [][\A d \in Dispatches :
          /\ (disp[d].pc # "rlwait" /\ disp'[d].pc = "rlwait") =>
                LET u == urls[disp'[d].idx]
                IN  /\ state'[u] # NoState
                    /\ state'[u].resetAt > now
                    /\ disp'[d].wake = now + Max(0, state'[u].resetAt - now)
          /\ (disp[d].pc = "rlwait" /\ disp'[d] # disp[d]) =>
                /\ now >= disp[d].wake
                /\ disp'[d].pc = "inflight"
                /\ Len(disp'[d].hist) = Len(disp[d].hist) + 1]_vars

\* C37: A's window is used up (remaining = 0) and its resetAt has passed: A is
\* reported limited, the wait time is 0 and the POST was issued at the call
C37_Witness ==
    \E d \in Dispatches :
        /\ disp[d].pc = "inflight"
        /\ disp[d].hist = <<[ep |-> "A", st |-> Pending]>>
        /\ disp[d].issuedAt = now
        /\ now = 2000
        /\ state["A"] = [remaining |-> 0, resetAt |-> 1000, isLimited |-> FALSE, retryAfter |-> 0]
        /\ isRateLimited(state, "A", now)

\* C38: with no other dispatch on the endpoint, the delay of a 429 is served
\* once: when the sleep of the retry delay ends, the check before the next
\* attempt finds the limit lapsed, clears it, and the POST is issued in the same
\* turn, with no rate-limit wait in between.
C38_DelayServedOnce ==
    [][\A d \in Dispatches :
          (disp[d].pc = "retrywait" /\ disp'[d] # disp[d]) =>
              LET u == urls[disp[d].idx]
              IN  /\ now >= disp[d].wake
                  /\ disp[d].attempt + 1 < maxRetries =>
                        /\ state[u].isLimited
                        /\ now >= state[u].resetAt
                        /\ state'[u] = [state[u] EXCEPT !.isLimited = FALSE,
                                                        !.remaining = defaultLimit]
                        /\ disp'[d].pc = "inflight"
                        /\ disp'[d].idx = disp[d].idx
                        /\ disp'[d].attempt = disp[d].attempt + 1]_vars

\* C38: A answered 429 with Retry-After 1; one second later the retry is in
\* flight and the limit is cleared
C38_Witness ==
    \E d \in Dispatches :
        /\ disp[d].pc = "inflight"
        /\ disp[d].hist = <<[ep |-> "A", st |-> 429], [ep |-> "A", st |-> Pending]>>
        /\ disp[d].last429.retryAfter = 1
        /\ disp[d].issuedAt = disp[d].last429.at + 1000
        /\ state["A"].isLimited = FALSE
        /\ state["A"].remaining = defaultLimit

----------------------------------------------------------------------------
(* Properties of a dispatch to its end, under SpecLive *)

\* no attempt is possible with this configuration
NoAttemptPossible == maxRetries = 0 \/ urls = <<>>

\* C39: with maxRetries = 0 or an empty endpoint list a flagged dispatch issues
\* no request, leaves the rate-limit state as it is, and ends Exhausted with the
\* failure event emitted exactly once.
C39_NoAttemptPossible ==
    /\ [][\A d \in Dispatches :
             (NoAttemptPossible /\ disp'[d].pc # "idle" /\ disp'[d].flagIn = "true") =>
                 /\ disp'[d].hist = <<>>
                 /\ disp'[d].pc \in {"micro", "exhausted"}
                 /\ disp'[d].errors = IF disp'[d].pc = "exhausted" THEN 1 ELSE 0
                 /\ ~disp'[d].raised
                 /\ disp'[d] # disp[d] => state' = state]_vars
    /\ \A d \in Dispatches :
          (NoAttemptPossible /\ disp[d].pc # "idle" /\ disp[d].flagIn = "true")
              ~> (disp[d].pc = "exhausted" /\ disp[d].errors = 1)

\* C39: with maxRetries = 0 and two endpoints configured, one of them limited,
\* the dispatch ended Exhausted without a request
C39_Witness ==
    \E d \in Dispatches :
        /\ maxRetries = 0
        /\ urls = <<"A", "B">>
        /\ disp[d].flagIn = "true"
        /\ disp[d].pc = "exhausted"
        /\ disp[d].errors = 1
        /\ disp[d].hist = <<>>
        /\ state["A"] # NoState
        /\ state["A"].isLimited

----------------------------------------------------------------------------
(* The alert flag through the transport's format, under SpecEntry *)

\* a Discord transport with the default component list gets an entry logged
\* with sendDiscordWebhook = true
FlaggedDefaultDiscord ==
    /\ e_call.transportType = "discord"
    /\ e_call.components.default
    /\ e_call.sendDiscordWebhook = Bool(TRUE)

\* the entry has the flag set when the transport gets it, and the transport
\* dispatches it
ReachesDispatcher ==
    /\ e_pc \in {"transformed", "dispatching", "skipped"} =>
          e_info["sendDiscordWebhook"] = Bool(TRUE)
    /\ e_pc \notin {"skipped", "dropped"}

\* C40 as stated: with the Discord transport's default component list, which
\* does not name sendDiscordWebhook, every entry logged with the flag set
\* reaches the dispatcher with the flag set and is dispatched.
C40_Original ==
    FlaggedDefaultDiscord =>
        ("sendDiscordWebhook" \notin DEFAULT_COMPONENTS("discord") /\ ReachesDispatcher)

\* C40, amended: with the Discord transport's default component list, an entry
\* logged with the flag set at a level the transport admits reaches the
\* dispatcher with the flag set and is dispatched: the filter never removes
\* the flag.
C40_FlagSurvivesFilter ==
    (/\ FlaggedDefaultDiscord
     /\ admits(e_call.transportType, e_call.transportLevel, e_call.level)) =>
        ("sendDiscordWebhook" \notin DEFAULT_COMPONENTS("discord") /\ ReachesDispatcher)

\* C40: an error-level entry with the flag went through the format of a
\* Discord transport with default components and level, and is being dispatched
C40_Witness ==
    /\ FlaggedDefaultDiscord
    /\ e_call.transportLevel = Absent
    /\ e_call.level = "error"
    /\ e_pc = "dispatching"
    /\ e_info["sendDiscordWebhook"] = Bool(TRUE)

=============================================================================
